---- MODULE Spec2Model ----
(***************************************************************************)
(* A model of the StreetEasy apartment tracker (src/apartment_tracker.py): *)
(* the retrying fetch with User-Agent rotation, the card extractor, the    *)
(* SQLite-backed seen-listings store, the dedup loop of                    *)
(* check_for_new_listings, the e-mail notifier and the scheduler loop.     *)
(*                                                                         *)
(* Text is modelled as a sequence of word tokens separated by single       *)
(* spaces; the token WS stands for leading or trailing whitespace, so that *)
(* strip() and the emptiness tests of the code have something to act on.   *)
(***************************************************************************)
EXTENDS Integers, Sequences, FiniteSets, TLC

\* ------------------------------------------------------------------ bounds

\* Number of cycles (calls of check_for_new_listings) a behaviour may start.
MaxCycles == 2

\* Longest page, in listing cards, handed to the extractor on its own.
MaxExtractCards == 2

\* Number of direct save_listing calls in the store specification.
MaxSaves == 3

\* --------------------------------------------------------- program constants

\* get_page_with_retry(self, url, max_retries = 3)
MaxRetries == 3

\* The session's initial User-Agent (self.headers): not one of the pool.
DefaultUA == 0

\* The three alternative User-Agent strings of get_page_with_retry.
UserAgents == {1, 2, 3}

\* What one request can come back with: status 200, status 403, any other
\* status, or a requests.exceptions.RequestException.
Responses == {"ok", "forbidden", "other", "exception"}

\* ------------------------------------------------------------------- text

WS == " "

NA == <<"N/A">>

BaseOrigin == <<"http", "s://streeteasy.com">>

RECURSIVE LStrip(_)
LStrip(s) ==
    IF s # <<>> /\ Head(s) = WS THEN LStrip(Tail(s)) ELSE s

RECURSIVE RStrip(_)
RStrip(s) ==
    IF s # <<>> /\ s[Len(s)] = WS THEN RStrip(SubSeq(s, 1, Len(s) - 1)) ELSE s

\* str.strip(), and get_text(strip=True) of an element with one text node.
Strip(s) == RStrip(LStrip(s))

\* `w in s` for the words the code looks for.
Contains(s, w) == \E i \in 1..Len(s) : s[i] = w

\* s.split(w)[0]: the text before the first occurrence of w.
BeforeWord(s, w) ==
    IF Contains(s, w)
    THEN SubSeq(s, 1, (CHOOSE i \in 1..Len(s) :
                          s[i] = w /\ \A j \in 1..(i - 1) : s[j] # w) - 1)
    ELSE s

\* str.lower() on the tokens the model uses.
LowerTok(t) ==
    CASE t = "Street" -> "street"
      [] t = "Avenue" -> "avenue"
      [] t = "Base:"  -> "base:"
      [] t = "Bed"    -> "bed"
      [] t = "Bath"   -> "bath"
      [] OTHER        -> t

Lower(s) == [i \in 1..Len(s) |-> LowerTok(s[i])]

\* str.split(): the whitespace-separated words.
SplitWords(s) == SelectSeq(s, LAMBDA t : t # WS)

\* s.startswith('http')
StartsWithHttp(s) == s # <<>> /\ s[1] = "http"

\* https://streeteasy.com prefixed to a relative link.
Absolute(s) == IF StartsWithHttp(s) THEN s ELSE BaseOrigin \o s

\* ------------------------------------------------------------ listing cards

\* What select_one gives for one selector inside a card: an element with its
\* text, or nothing.
NoElem == [found |-> FALSE, text |-> <<>>]

Elem(t) == [found |-> TRUE, text |-> t]

\* A link element and its href (<<>>: the attribute is missing or empty, which
\* link_elem.get('href', '') does not tell apart).
NoLink == [found |-> FALSE, href |-> <<>>]

Link(h) == [found |-> TRUE, href |-> h]

\* An image element with its alt, src and data-src attributes.
NoImg == [found |-> FALSE, alt |-> <<>>, src |-> <<>>, data_src |-> <<>>]

Img(a, s) == [found |-> TRUE, alt |-> a, src |-> s, data_src |-> <<>>]

\* The title selectors, in list order: [data-testid="listing-title"],
\* .ListingCard-module__address__, .address, h3, h2, [class*="address"],
\* [class*="title"].
TitleSelectors == 1..7

\* The price selectors, in list order: .PriceInfo-module__priceText___Ej9Ej,
\* .price, [data-testid="price"], .ListingDetails-module__price___,
\* [class*="price"], [class*="Price"], .rent-price, .listing-price.
PriceSelectors == 1..8

BlankCard ==
    [raises       |-> FALSE,
     primaryLink  |-> NoLink,
     rentalLink   |-> NoLink,
     buildingLink |-> NoLink,
     cardImage    |-> NoImg,
     otherImg     |-> NoImg,
     titles       |-> [i \in TitleSelectors |-> NoElem],
     prices       |-> [i \in PriceSelectors |-> NoElem],
     beds         |-> [found |-> FALSE, items |-> <<>>]]

AltA == <<"120", "East", "5th", "Street", "3A", "image", "1", "of", "23">>

\* The card of the spec's scenario: "120 East 5th Street 3A", "Base: $2,500".
CardA ==
    [BlankCard EXCEPT
        !.primaryLink = Link(<<"/rental/", "abc123">>),
        !.cardImage = Img(AltA, <<"http", "s://img.example/1.jpg">>),
        !.prices[1] = Elem(<<"Base:", "$2,500">>),
        !.beds = [found |-> TRUE,
                  items |-> << <<"1", "Bed">>, <<"1", "Bath">>, <<"650", "ft2">> >>]]

\* The same apartment (same title, address and price) behind another link.
CardADup ==
    [CardA EXCEPT !.primaryLink = Link(<<"/rental/", "zzz999">>),
                  !.beds = [found |-> FALSE, items |-> <<>>]]

\* No image: the title comes from the h3 selector, the link from the
\* a[href*="/rental/"] fallback, and there is no price.
CardB ==
    [BlankCard EXCEPT
        !.rentalLink = Link(<<"http", "s://streeteasy.com", "/rental/", "b77">>),
        !.titles[4] = Elem(<<WS, "The", "Max", WS>>)]

\* No link element at all.
CardNoLink ==
    [BlankCard EXCEPT !.otherImg = Img(<<"Studio">>, <<"/img/", "2.jpg">>)]

\* A card whose processing raises (caught by the per-card except).
CardRaises == [CardA EXCEPT !.raises = TRUE]

\* The primary link element is there but carries no href.
CardNoHref ==
    [BlankCard EXCEPT
        !.primaryLink = Link(<<>>),
        !.otherImg = Img(<<"Studio">>, <<"/img/", "2.jpg">>)]

\* The alt text begins with the delimiter word "image".
CardAltImage ==
    [BlankCard EXCEPT
        !.buildingLink = Link(<<"/building/", "the-max">>),
        !.cardImage = Img(<<"image", "1", "of", "23">>, <<>>),
        !.titles[4] = Elem(<<"The", "Max">>)]

\* The alt text is whitespace only.
CardAltBlank ==
    [BlankCard EXCEPT
        !.rentalLink = Link(<<"/rental/", "c5">>),
        !.otherImg = Img(<<WS>>, <<>>),
        !.titles[1] = Elem(<<"The", "Max">>)]

\* The first matching title selector has empty text, a later one has text.
CardEmptyTitleElem ==
    [BlankCard EXCEPT
        !.rentalLink = Link(<<"/rental/", "d6">>),
        !.titles[1] = Elem(<<WS>>),
        !.titles[4] = Elem(<<"The", "Max">>)]

\* A link, but neither an image nor any title element.
CardNoTitle ==
    [BlankCard EXCEPT !.rentalLink = Link(<<"/rental/", "e7">>),
                      !.prices[2] = Elem(<<"$3,100">>)]

\* The first price selector matches an element whose text holds no amount;
\* the second one matches an element that holds one.
CardPriceLater ==
    [BlankCard EXCEPT
        !.rentalLink = Link(<<"/rental/", "f8">>),
        !.otherImg = Img(<<"Loft">>, <<>>),
        !.prices[1] = Elem(<<"Contact", "agent">>),
        !.prices[2] = Elem(<<"$3,100">>)]

\* The cards the site serves in the pipeline specification.
SiteCards == {CardA, CardADup, CardB, CardNoLink, CardRaises}

\* The cards handed to the extractor on its own.
AllCards ==
    SiteCards \cup {CardNoHref, CardAltImage, CardAltBlank, CardEmptyTitleElem,
                    CardNoTitle, CardPriceLater}

SeqsUpTo(S, n) == UNION {[1..k -> S] : k \in 0..n}

\* The pages the site serves in the pipeline specification: no card, cards
\* that give no listing, one listing, two listings in either order, the same
\* apartment twice, a card that raises before a good one, and three cards of
\* which the last two are the same apartment.
SitePages ==
    {<<>>,
     <<CardNoLink, CardRaises>>,
     <<CardA>>,
     <<CardA, CardB>>,
     <<CardB, CardA>>,
     <<CardA, CardADup>>,
     <<CardRaises, CardB>>,
     <<CardB, CardADup, CardA>>}

ExtractPages == SeqsUpTo(AllCards, MaxExtractCards)

\* -------------------------------------------------------------- extraction

\* link_elem: the image-container link, else a[href*="/rental/"], else
\* a[href*="/building/"].
LinkElem(card) ==
    IF card.primaryLink.found THEN card.primaryLink
    ELSE IF card.rentalLink.found THEN card.rentalLink
    ELSE card.buildingLink

\* full_url: the href, made absolute.
FullUrl(card) == Absolute(LinkElem(card).href)

\* img_elem: img.CardImage-module__cardImage__cirIn, else any img (the third
\* selector, an img below [data-testid="listing-image"], matches nothing the
\* second one missed).
ImgElem(card) == IF card.cardImage.found THEN card.cardImage ELSE card.otherImg

\* The title taken from the image's alt text, 'N/A' when there is none.
TitleFromImage(img) ==
    IF img.found /\ img.alt # <<>>
    THEN IF Contains(img.alt, "image")
         THEN Strip(BeforeWord(img.alt, "image"))
         ELSE Strip(img.alt)
    ELSE NA

\* The title taken from the first title selector that matches an element.
TitleFromSelectors(card) ==
    IF \E i \in TitleSelectors : card.titles[i].found
    THEN LET first == CHOOSE i \in TitleSelectors :
                          /\ card.titles[i].found
                          /\ \A j \in TitleSelectors : j < i => ~card.titles[j].found
         IN  Strip(card.titles[first].text)
    ELSE NA

ExtractTitle(card) ==
    IF TitleFromImage(ImgElem(card)) = NA
    THEN TitleFromSelectors(card)
    ELSE TitleFromImage(ImgElem(card))

\* image_url: src or data-src, made absolute; <<>> stands for None or ''.
ExtractImageUrl(card) ==
    LET img == ImgElem(card)
        u   == IF img.src # <<>> THEN img.src ELSE img.data_src
    IN  IF ~img.found THEN <<>>
        ELSE IF u # <<>> /\ ~StartsWithHttp(u) THEN BaseOrigin \o u ELSE u

\* What re.search(r'\$[\d,]+', token) matches inside one token ("" : nothing).
MoneyOf(t) ==
    CASE t = "$2,500"    -> "$2,500"
      [] t = "$3,100"    -> "$3,100"
      [] t = "$2,500/mo" -> "$2,500"
      [] OTHER           -> ""

\* raw_price -> price: the first currency match, else the text before the
\* qualifier words if it starts with a dollar sign, else 'N/A'.
PriceFromText(raw) ==
    IF \E i \in 1..Len(raw) : MoneyOf(raw[i]) # ""
    THEN LET first == CHOOSE i \in 1..Len(raw) :
                          /\ MoneyOf(raw[i]) # ""
                          /\ \A j \in 1..(i - 1) : MoneyOf(raw[j]) = ""
         IN  <<MoneyOf(raw[first])>>
    ELSE LET cut == Strip(BeforeWord(BeforeWord(BeforeWord(raw, "base"), "net"), "rent"))
         IN  IF cut # <<>> /\ cut[1] \in {"$", "$TBD"} THEN cut ELSE NA

\* The price loop: the first selector that matches an element decides.
ExtractPrice(card) ==
    IF \E i \in PriceSelectors : card.prices[i].found
    THEN LET first == CHOOSE i \in PriceSelectors :
                          /\ card.prices[i].found
                          /\ \A j \in PriceSelectors : j < i => ~card.prices[j].found
         IN  PriceFromText(Strip(card.prices[first].text))
    ELSE NA

StreetWords == {"street", "avenue", "road", "place", "drive"}

\* The address: the title without its last word, for a title with a street
\* word and at least three words.
ExtractAddress(title) ==
    IF title # NA /\ \E w \in StreetWords : Contains(Lower(title), w)
    THEN LET parts == SplitWords(title)
         IN  IF Len(parts) >= 3 THEN SubSeq(parts, 1, Len(parts) - 1) ELSE NA
    ELSE NA

\* The beds/baths/sqft items, classified in order; a later item of a kind
\* overwrites an earlier one.
RECURSIVE ClassifyItems(_, _)
ClassifyItems(items, acc) ==
    IF items = <<>> THEN acc
    ELSE LET text == Lower(Strip(Head(items)))
             val  == Strip(Head(items))
             next == IF Contains(text, "bed") THEN [acc EXCEPT !.bedrooms = val]
                     ELSE IF Contains(text, "bath") THEN [acc EXCEPT !.bathrooms = val]
                     ELSE IF Contains(text, "ft2") THEN [acc EXCEPT !.sqft = val]
                     ELSE acc
         IN  ClassifyItems(Tail(items), next)

ExtractBeds(card) ==
    LET none == [bedrooms |-> NA, bathrooms |-> NA, sqft |-> NA]
    IN  IF card.beds.found THEN ClassifyItems(card.beds.items, none) ELSE none

\* generate_listing_id: the MD5 digest of "title_address_price", modelled by
\* the string that is hashed.
GenerateListingId(title, address, price) ==
    title \o <<"_">> \o address \o <<"_">> \o price

\* The essential-field check: the card is skipped when it holds.
SkipListing(title, full_url) == title = NA \/ full_url = <<>>

\* Whether the loop body emits a listing for the card.
Emits(card) ==
    /\ ~card.raises
    /\ LinkElem(card).found
    /\ ~SkipListing(ExtractTitle(card), FullUrl(card))

\* The listing built from a card.
MakeListing(card) ==
    LET title   == ExtractTitle(card)
        price   == ExtractPrice(card)
        address == ExtractAddress(title)
        b       == ExtractBeds(card)
    IN  [id        |-> GenerateListingId(title, address, price),
         title     |-> title,
         price     |-> price,
         address   |-> address,
         url       |-> FullUrl(card),
         bedrooms  |-> b.bedrooms,
         bathrooms |-> b.bathrooms,
         sqft      |-> b.sqft,
         image_url |-> ExtractImageUrl(card)]

\* The listings scrape_listings builds from the cards of a page, in order.
RECURSIVE ScrapeCards(_)
ScrapeCards(cards) ==
    IF cards = <<>> THEN <<>>
    ELSE IF Emits(Head(cards))
         THEN <<MakeListing(Head(cards))>> \o ScrapeCards(Tail(cards))
         ELSE ScrapeCards(Tail(cards))

\* ------------------------------------------------------------------- store

\* is_new_listing with its test the wrong way round (result is not None).
IsNewListingInverted(s, id) == \E row \in s : row.id = id

\* is_new_listing: no row with this id.
IsNewListing(s, id) == ~\E row \in s : row.id = id

\* The INSERT with its first two values swapped: the title lands in id.
RowMisordered(l, now) ==
    [id |-> l.title, title |-> l.id, price |-> l.price, address |-> l.address,
     url |-> l.url, bedrooms |-> l.bedrooms, bathrooms |-> l.bathrooms,
     sqft |-> l.sqft, image_url |-> l.image_url, first_seen |-> now]

\* The row INSERT writes for a listing: its fields and first_seen.
Row(l, now) ==
    [id |-> l.id, title |-> l.title, price |-> l.price, address |-> l.address,
     url |-> l.url, bedrooms |-> l.bedrooms, bathrooms |-> l.bathrooms,
     sqft |-> l.sqft, image_url |-> l.image_url, first_seen |-> now]

\* save_listing without its commit: nothing is written.
SaveListingNoCommit(s, l, now) == s

\* save_listing as INSERT OR REPLACE: a row with the same id is overwritten.
SaveListingReplace(s, l, now) ==
    {row \in s : row.id # l.id} \cup {Row(l, now)}

\* save_listing: INSERT OR IGNORE on the primary key id.
SaveListing(s, l, now) ==
    IF \E row \in s : row.id = l.id THEN s ELSE s \cup {Row(l, now)}

\* ------------------------------------------------------------------- state

VARIABLES
    pc,            \* where the process is: "boot", "attempt", "fetched", "dedup",
                   \* "notify", "idle", "crashed", "stopped"
    cycles,        \* calls of check_for_new_listings started so far
    saves,         \* direct calls of save_listing made so far
    ua,            \* self.session.headers['User-Agent']
    store,         \* the rows of the apartments table
    attempt,       \* get_page_with_retry: the loop variable
    uaSent,        \* the User-Agent sent with each request of the call
    statuses,      \* what each request of the call came back with
    waits,         \* the backoff sleeps of the call
    fetchRaised,   \* how often the call raised its RequestException
    page,          \* the cards of the last page fetched
    listings,      \* scrape_listings' result
    idx,           \* the dedup loop's position in listings (from 1)
    new_listings,  \* check_for_new_listings' new_listings
    store0,        \* the store as it was when the cycle started
    errors,        \* logger.error records written in this cycle
    cycleErrors,   \* the kinds of error met in this cycle
    notifyLog,     \* every call of send_email_notifications so far
    lastComplete,  \* the run that fetched `page` ran to its end
    repeatRun,     \* this run fetched the same page as the run before it,
                   \* which ran to its end
    lastSave       \* the last save_listing call: its listing, the store before

vars ==
    <<pc, cycles, saves, ua, store, attempt, uaSent, statuses, waits,
      fetchRaised, page, listings, idx, new_listings, store0, errors,
      cycleErrors, notifyLog, lastComplete, repeatRun, lastSave>>

fetchVars == <<attempt, uaSent, statuses, waits, fetchRaised>>

\* CURRENT_TIMESTAMP: a clock that advances with every cycle and every call.
Now == cycles + saves

Ids(ls) == [i \in 1..Len(ls) |-> ls[i].id]

Init ==
    /\ pc = "boot"
    /\ cycles = 0
    /\ saves = 0
    /\ ua = DefaultUA
    /\ store = {}
    /\ attempt = 0
    /\ uaSent = <<>>
    /\ statuses = <<>>
    /\ waits = 0
    /\ fetchRaised = 0
    /\ page = <<>>
    /\ listings = <<>>
    /\ idx = 1
    /\ new_listings = <<>>
    /\ store0 = {}
    /\ errors = 0
    /\ cycleErrors = {}
    /\ notifyLog = <<>>
    /\ lastComplete = FALSE
    /\ repeatRun = FALSE
    /\ lastSave = <<>>

\* ---------------------------------------------------------------- scheduler

\* check_for_new_listings is entered: scrape_listings calls
\* get_page_with_retry, whose loop starts at attempt 0.
BeginCycle ==
    /\ cycles < MaxCycles
    /\ cycles' = cycles + 1
    /\ pc' = "attempt"
    /\ attempt' = 0
    /\ uaSent' = <<>>
    /\ statuses' = <<>>
    /\ waits' = 0
    /\ fetchRaised' = 0
    /\ listings' = <<>>
    /\ idx' = 1
    /\ new_listings' = <<>>
    /\ store0' = store
    /\ errors' = 0
    /\ cycleErrors' = {}
    /\ repeatRun' = FALSE
    /\ lastSave' = <<>>
    /\ UNCHANGED <<saves, ua, store, page, notifyLog, lastComplete>>

\* run_scheduler: "Run once immediately".
RunImmediate == pc = "boot" /\ BeginCycle

\* run_scheduler: schedule.run_pending() finds the job due.
RunPending == pc = "idle" /\ BeginCycle

\* run_scheduler: Ctrl+C in the loop.
Interrupt ==
    /\ pc = "idle"
    /\ pc' = "stopped"
    /\ UNCHANGED <<cycles, saves, ua, store, attempt, uaSent, statuses, waits,
                   fetchRaised, page, listings, idx, new_listings, store0,
                   errors, cycleErrors, notifyLog, lastComplete, repeatRun,
                   lastSave>>

\* The script is started again on the same database: a new ApartmentTracker
\* with the initial headers; init_database leaves the rows alone.
Restart ==
    /\ pc \in {"crashed", "stopped"}
    /\ cycles < MaxCycles
    /\ pc' = "boot"
    /\ ua' = DefaultUA
    /\ UNCHANGED <<cycles, saves, store, attempt, uaSent, statuses, waits,
                   fetchRaised, page, listings, idx, new_listings, store0,
                   errors, cycleErrors, notifyLog, lastComplete, repeatRun,
                   lastSave>>

\* An exception that leaves check_for_new_listings: run_scheduler catches
\* KeyboardInterrupt only, and schedule.run_pending() catches nothing.
AfterCycleException == "crashed"

\* ------------------------------------------------------ get_page_with_retry

\* response.status_code == 200
IsSuccess(r) == r = "ok"

\* response.status_code == 403 and attempt < max_retries - 1
Rotates(r, a) == r = "forbidden" /\ a < MaxRetries - 1

\* The loop running one attempt too many.
LoopContinuesOffByOne(a) == a < MaxRetries + 1

\* for attempt in range(max_retries): whether attempt a is made.
LoopContinues(a) == a < MaxRetries

\* if attempt > 0: time.sleep(random.uniform(2, 5))
BackoffWaits(a) == IF a > 0 THEN 1 ELSE 0

\* logger.error(...): one more error record.
LogError(n) == n + 1

\* One request: the sleep before it, the header it carries, what came back.
SendRequest(r) ==
    /\ pc = "attempt"
    /\ LoopContinues(attempt)
    /\ waits' = waits + BackoffWaits(attempt)
    /\ uaSent' = Append(uaSent, ua)
    /\ statuses' = Append(statuses, r)

\* The fetch error without scrape_listings' outer except: it leaves
\* check_for_new_listings.
ExhaustedUncaught ==
    /\ fetchRaised' = fetchRaised + 1
    /\ errors' = errors
    /\ cycleErrors' = cycleErrors \cup {"fetch"}
    /\ listings' = <<>>
    /\ pc' = AfterCycleException

\* The loop is over without a return: the RequestException is raised, caught
\* by scrape_listings' outer except (one error record, []), and
\* check_for_new_listings returns on "No listings found".
Exhausted ==
    /\ fetchRaised' = fetchRaised + 1
    /\ errors' = LogError(errors)
    /\ cycleErrors' = cycleErrors \cup {"fetch"}
    /\ listings' = <<>>
    /\ pc' = "idle"

\* The attempt failed and the loop goes on to attempt a, or ends.
NextAttempt(a) ==
    /\ attempt' = a
    /\ IF LoopContinues(a)
       THEN /\ pc' = "attempt"
            /\ UNCHANGED <<fetchRaised, errors, cycleErrors, listings>>
       ELSE Exhausted

\* Status 200: the response is returned to scrape_listings.
FetchSucceeds ==
    /\ \E r \in Responses : IsSuccess(r) /\ SendRequest(r)
    /\ pc' = "fetched"
    /\ UNCHANGED <<cycles, saves, ua, store, attempt, fetchRaised, page,
                   listings, idx, new_listings, store0, errors, cycleErrors,
                   notifyLog, lastComplete, repeatRun, lastSave>>

\* Status 403: before the last attempt the User-Agent is replaced by
\* random.choice(user_agents); on the last attempt it is only logged.
FetchForbidden(choice) ==
    /\ \E r \in Responses :
          /\ ~IsSuccess(r)
          /\ r = "forbidden"
          /\ SendRequest(r)
          /\ ua' = IF Rotates(r, attempt) THEN choice ELSE ua
    /\ NextAttempt(attempt + 1)
    /\ UNCHANGED <<cycles, saves, store, page, idx, new_listings, store0,
                   notifyLog, lastComplete, repeatRun, lastSave>>

\* Any other status, or a RequestException: the next attempt, no rotation.
FetchFails ==
    /\ \E r \in Responses :
          /\ ~IsSuccess(r)
          /\ r # "forbidden"
          /\ SendRequest(r)
    /\ NextAttempt(attempt + 1)
    /\ UNCHANGED <<cycles, saves, ua, store, page, idx, new_listings, store0,
                   notifyLog, lastComplete, repeatRun, lastSave>>

\* ----------------------------------------------------------- scrape_listings

\* The response, whose content is the page p, is parsed and every card
\* processed; the call trace of get_page_with_retry ends with the call. No
\* listings: check_for_new_listings returns.
Scrape(p) ==
    /\ pc = "fetched"
    /\ page' = p
    /\ repeatRun' = (lastComplete /\ p = page)
    /\ listings' = ScrapeCards(p)
    /\ cycleErrors' = IF \E i \in 1..Len(p) : p[i].raises
                      THEN cycleErrors \cup {"parse"}
                      ELSE cycleErrors
    /\ attempt' = 0
    /\ uaSent' = <<>>
    /\ statuses' = <<>>
    /\ waits' = 0
    /\ IF listings' = <<>>
       THEN pc' = "idle" /\ lastComplete' = TRUE
       ELSE pc' = "dedup" /\ lastComplete' = FALSE
    /\ UNCHANGED <<cycles, saves, ua, store, fetchRaised, idx, new_listings,
                   store0, errors, notifyLog, lastSave>>

\* ---------------------------------------------------- check_for_new_listings

\* One iteration of the dedup loop; after the last one the notifier is called
\* if there is anything new.
DedupStep ==
    /\ pc = "dedup"
    /\ LET l     == listings[idx]
           isNew == IsNewListing(store, l.id)
       IN  /\ new_listings' = IF isNew THEN Append(new_listings, l) ELSE new_listings
           /\ store' = IF isNew THEN SaveListing(store, l, Now) ELSE store
           /\ lastSave' = IF isNew THEN <<[listing |-> l, before |-> store]>>
                          ELSE lastSave
    /\ idx' = idx + 1
    /\ IF idx < Len(listings)
       THEN pc' = "dedup" /\ lastComplete' = lastComplete
       ELSE IF new_listings' # <<>>
            THEN pc' = "notify" /\ lastComplete' = lastComplete
            ELSE pc' = "idle" /\ lastComplete' = TRUE
    /\ UNCHANGED <<cycles, saves, ua, fetchVars, page, listings, store0, errors,
                   cycleErrors, notifyLog, repeatRun>>

\* is_new_listing raises (sqlite3.Error): nothing catches it.
IsNewFails ==
    /\ pc = "dedup"
    /\ pc' = AfterCycleException
    /\ cycleErrors' = cycleErrors \cup {"store"}
    /\ UNCHANGED <<cycles, saves, ua, store, fetchVars, page, listings, idx,
                   new_listings, store0, errors, notifyLog, lastComplete,
                   repeatRun, lastSave>>

\* save_listing raising only after its commit.
StoreCommittedBeforeFailure(s, l, now) == SaveListing(s, l, now)

\* The store after save_listing raised: the INSERT was never committed.
StoreAfterFailedSave(s, l, now) == s

\* save_listing raises, after the listing was appended to new_listings.
SaveFails ==
    /\ pc = "dedup"
    /\ IsNewListing(store, listings[idx].id)
    /\ new_listings' = Append(new_listings, listings[idx])
    /\ store' = StoreAfterFailedSave(store, listings[idx], Now)
    /\ pc' = AfterCycleException
    /\ cycleErrors' = cycleErrors \cup {"store"}
    /\ UNCHANGED <<cycles, saves, ua, fetchVars, page, listings, idx, store0,
                   errors, notifyLog, lastComplete, repeatRun, lastSave>>

\* -------------------------------------------------- send_email_notifications

\* How a call can go: the mail is sent, the credentials are missing, or
\* building or sending the mail raises.
NotifyOutcomes == {"sent", "no_credentials", "smtp_error"}

\* The notifier letting a delivery error through.
AfterNotifyPropagates(outcome) ==
    IF outcome = "smtp_error" THEN AfterCycleException ELSE "idle"

\* Where the process is after the call: the whole body is inside
\* try/except Exception, so the call always returns.
AfterNotify(outcome) == "idle"

Notify(outcome) ==
    /\ pc = "notify"
    /\ notifyLog' = Append(notifyLog, [cycle   |-> cycles,
                                       ids     |-> Ids(new_listings),
                                       outcome |-> outcome])
    /\ errors' = IF outcome = "sent" THEN errors ELSE LogError(errors)
    /\ cycleErrors' = IF outcome = "sent" THEN cycleErrors
                      ELSE cycleErrors \cup {"notify"}
    /\ pc' = AfterNotify(outcome)
    /\ lastComplete' = (pc' = "idle")
    /\ UNCHANGED <<cycles, saves, ua, store, fetchVars, page, listings, idx,
                   new_listings, store0, repeatRun, lastSave>>

\* ------------------------------------------------------------ specifications

Next ==
    \/ RunImmediate
    \/ RunPending
    \/ Interrupt
    \/ Restart
    \/ FetchSucceeds
    \/ \E c \in UserAgents : FetchForbidden(c)
    \/ FetchFails
    \/ \E p \in SitePages : Scrape(p)
    \/ DedupStep
    \/ IsNewFails
    \/ SaveFails
    \/ \E o \in NotifyOutcomes : Notify(o)

\* The tracker run by its scheduler.
Spec == Init /\ [][Next]_vars

\* The extractor on its own: scrape_listings has its response, whose content
\* is any page over all the cards.
InitExtract ==
    /\ pc = "fetched"
    /\ cycles = 1
    /\ saves = 0
    /\ ua = DefaultUA
    /\ store = {}
    /\ attempt = 0
    /\ uaSent = <<DefaultUA>>
    /\ statuses = <<"ok">>
    /\ waits = 0
    /\ fetchRaised = 0
    /\ page = <<>>
    /\ listings = <<>>
    /\ idx = 1
    /\ new_listings = <<>>
    /\ store0 = {}
    /\ errors = 0
    /\ cycleErrors = {}
    /\ notifyLog = <<>>
    /\ lastComplete = FALSE
    /\ repeatRun = FALSE
    /\ lastSave = <<>>

NextExtract == \E p \in ExtractPages : Scrape(p)

SpecExtract == InitExtract /\ [][NextExtract]_vars

\* The store on its own: save_listing called directly, with any listing the
\* extractor can build.
DirectListings == {MakeListing(c) : c \in {d \in AllCards : Emits(d)}}

SaveCall(l) ==
    /\ pc = "boot"
    /\ saves < MaxSaves
    /\ saves' = saves + 1
    /\ store' = SaveListing(store, l, Now)
    /\ lastSave' = <<[listing |-> l, before |-> store]>>
    /\ UNCHANGED <<pc, cycles, ua, fetchVars, page, listings, idx, new_listings,
                   store0, errors, cycleErrors, notifyLog, lastComplete,
                   repeatRun>>

NextStore == \E l \in DirectListings : SaveCall(l)

SpecStore == Init /\ [][NextStore]_vars

\* ------------------------------------------------------------------ claims

\* The cycles in which send_email_notifications was called.
NotifiedInCycle(c) == \E i \in 1..Len(notifyLog) : notifyLog[i].cycle = c

\* C1: full dedup across cycles. A run of check_for_new_listings that
\* fetched the same page content as the run before it, that run having gone
\* through to its end and nothing else having written to the store since,
\* finds no candidate new: every extracted candidate is already in the store,
\* new_listings stays empty and the notifier is not called.
C1_FullDedup ==
    repeatRun =>
        /\ new_listings = <<>>
        /\ \A i \in 1..Len(listings) : ~IsNewListing(store, listings[i].id)
        /\ store = store0
        /\ pc # "notify"
        /\ ~NotifiedInCycle(cycles)

\* C1 witness: a second run on the same page, with two listings extracted, has
\* gone through its whole dedup loop.
C1_Witness ==
    /\ repeatRun
    /\ pc = "idle"
    /\ Len(listings) >= 2
    /\ idx > Len(listings)

\* Every attempt of the cycle's fetch got a 403.
AllForbidden ==
    /\ Len(statuses) = MaxRetries
    /\ \A i \in 1..Len(statuses) : statuses[i] = "forbidden"

\* C2: when every fetch attempt of a cycle gets a 403, the cycle ends without
\* raising and with no listing, the store is as it was when the cycle started
\* (save_listing is not called), the notifier is not called, and exactly one
\* error record is written.
C2_RateLimitExhaustion ==
    AllForbidden =>
        /\ pc # "crashed"
        /\ fetchRaised = 1
        /\ listings = <<>>
        /\ new_listings = <<>>
        /\ store = store0
        /\ lastSave = <<>>
        /\ ~NotifiedInCycle(cycles)
        /\ errors = 1

\* C2 witness: a cycle whose three attempts all got a 403 has ended, on a
\* store that already holds rows.
C2_Witness ==
    /\ AllForbidden
    /\ pc = "idle"
    /\ store # {}

\* C3: whatever error a cycle meets (fetch exhaustion, a card that fails to
\* parse, a store error, a notifier error), the process is not terminated by
\* it: the scheduler loop goes on.
C3_ProcessSurvivesCycleErrors ==
    cycleErrors # {} => pc # "crashed"

\* C4: get_page_with_retry makes at most max_retries requests, returns on the
\* first 200 and makes no request after it, and raises its error, once, exactly
\* when none of the max_retries requests came back with a 200.
C4_FetchTerminates ==
    /\ Len(statuses) <= MaxRetries
    /\ \A i \in 1..(Len(statuses) - 1) : ~IsSuccess(statuses[i])
    /\ pc = "fetched" => (statuses # <<>> /\ IsSuccess(statuses[Len(statuses)]))
    /\ pc = "attempt" => (attempt = Len(statuses) /\ attempt < MaxRetries)
    /\ fetchRaised <= 1
    /\ fetchRaised = 1 <=>
          /\ pc # "attempt"
          /\ Len(statuses) = MaxRetries
          /\ \A i \in 1..Len(statuses) : ~IsSuccess(statuses[i])

\* C4 witness: the call returned on its third request, after a 403 and a
\* transport error.
C4_Witness ==
    /\ pc = "fetched"
    /\ statuses = <<"forbidden", "exception", "ok">>
    /\ fetchRaised = 0

\* C5: in a call whose attempts 1 and 2 get a 403 and whose attempt 3
\* succeeds, the User-Agent sent with attempt 3 differs from the one sent with
\* attempt 1, and the call sleeps exactly twice.
C5_IdentityDiffers ==
    (pc = "fetched" /\ statuses = <<"forbidden", "forbidden", "ok">>) =>
        /\ uaSent[3] # uaSent[1]
        /\ waits = 2

\* C6: no listing returned by scrape_listings has a url that is empty or only
\* the base origin.
C6_UrlNeverMissing ==
    \A i \in 1..Len(listings) : listings[i].url \notin {<<>>, BaseOrigin}

\* C7: every listing returned by scrape_listings has a non-empty title.
C7_TitleNeverMissing ==
    \A i \in 1..Len(listings) : listings[i].title # <<>>

\* C8: save_listing is idempotent. After any call save_listing(l): if l's id
\* was already in the store, the store is exactly what it was before the call,
\* whatever l's other fields; if not, the store gained one row, l's; and
\* calling save_listing(l) again changes nothing. No two rows share an id.
C8_SaveListingIdempotent ==
    /\ \A r1, r2 \in store : r1.id = r2.id => r1 = r2
    /\ lastSave # <<>> =>
          LET l      == lastSave[1].listing
              before == lastSave[1].before
          IN  /\ ~IsNewListing(before, l.id) => store = before
              /\ IsNewListing(before, l.id) =>
                    \E row \in store :
                        /\ row.id = l.id
                        /\ row.url = l.url
                        /\ row.bedrooms = l.bedrooms
                        /\ row \notin before
                        /\ store = before \cup {row}
              /\ SaveListing(store, l, Now) = store

\* C8 witness: save_listing was called with a listing whose id was already in
\* the store under another url.
C8_Witness ==
    /\ lastSave # <<>>
    /\ \E row \in lastSave[1].before :
          /\ row.id = lastSave[1].listing.id
          /\ row.url # lastSave[1].listing.url

\* C9: a notifier failure stays inside send_email_notifications: the process
\* does not end on it, the notifier is called at most once per cycle, the
\* listings handed to the failed call stay in the store, and no later cycle
\* finds them new or hands them to the notifier again.
C9_NotifierFailureIsolated ==
    /\ "notify" \in cycleErrors => pc # "crashed"
    /\ \A i, j \in 1..Len(notifyLog) :
          i # j => notifyLog[i].cycle # notifyLog[j].cycle
    /\ \A i \in 1..Len(notifyLog) :
          notifyLog[i].outcome # "sent" =>
              \A k \in 1..Len(notifyLog[i].ids) :
                  /\ ~IsNewListing(store, notifyLog[i].ids[k])
                  /\ notifyLog[i].cycle < cycles =>
                        \A m \in 1..Len(new_listings) :
                            new_listings[m].id # notifyLog[i].ids[k]
                  /\ \A j \in (i + 1)..Len(notifyLog) :
                        \A m \in 1..Len(notifyLog[j].ids) :
                            notifyLog[j].ids[m] # notifyLog[i].ids[k]

\* C9 witness: after a failed notification, a later cycle has extracted one of
\* the listings of the failed call and has gone through its dedup loop.
C9_Witness ==
    /\ pc = "idle"
    /\ \E i \in 1..Len(notifyLog) :
          /\ notifyLog[i].outcome # "sent"
          /\ notifyLog[i].cycle < cycles
          /\ \E k \in 1..Len(notifyLog[i].ids), m \in 1..Len(listings) :
                listings[m].id = notifyLog[i].ids[k]
    /\ idx > Len(listings)

\* C10, as stated: when a store operation fails on candidate idx, that
\* candidate and every later one are not in the store, and every candidate
\* before it is.
C10_FailedAndLaterNotInStore ==
    pc = "crashed" =>
        /\ \A j \in idx..Len(listings) : IsNewListing(store, listings[j].id)
        /\ \A j \in 1..(idx - 1) : ~IsNewListing(store, listings[j].id)

\* C10, amended: when a store operation fails on candidate idx, the cycle
\* aborts without calling the notifier; the store is the store of the cycle's
\* start plus rows of candidates before idx, all of which are in the store;
\* the failing candidate and every later one is in the store only if its id
\* was there when the cycle started or is the id of an earlier candidate.
C10_AbortKeepsEarlierOnly ==
    pc = "crashed" =>
        /\ ~NotifiedInCycle(cycles)
        /\ store0 \subseteq store
        /\ \A row \in store \ store0 :
              \E j \in 1..(idx - 1) : row = Row(listings[j], cycles)
        /\ \A j \in 1..(idx - 1) : ~IsNewListing(store, listings[j].id)
        /\ \A j \in idx..Len(listings) :
              ~IsNewListing(store, listings[j].id) =>
                  \/ ~IsNewListing(store0, listings[j].id)
                  \/ \E i \in 1..(idx - 1) : listings[i].id = listings[j].id

\* C10 witness: save_listing failed on the second of three candidates, the
\* first of which was persisted by this cycle.
C10_Witness ==
    /\ pc = "crashed"
    /\ idx = 2
    /\ Len(listings) = 3
    /\ Len(new_listings) = 2
    /\ store # store0

\* The candidates among the first n of ls whose id was absent when checked:
\* absent from the store s0 of the cycle's start and not the id of an earlier
\* candidate. In extraction order.
RECURSIVE AbsentWhenChecked(_, _, _)
AbsentWhenChecked(ls, s0, n) ==
    IF n = 0 THEN <<>>
    ELSE LET rest == AbsentWhenChecked(ls, s0, n - 1)
             l    == ls[n]
         IN  IF /\ \A row \in s0 : row.id # l.id
                /\ \A i \in 1..(n - 1) : ls[i].id # l.id
             THEN Append(rest, l)
             ELSE rest

\* C11: new_listings is exactly the subsequence, in extraction order, of the
\* candidates checked so far whose id was absent from the store when it was
\* checked; each of them is in the store before the next candidate is checked
\* (after a failed save_listing no candidate is checked any more), and no two
\* records of new_listings share an id.
C11_NewListingsAreAbsentOnes ==
    /\ pc \in {"dedup", "notify", "idle"} =>
          /\ new_listings = AbsentWhenChecked(listings, store0, idx - 1)
          /\ \A m \in 1..Len(new_listings) :
                Row(new_listings[m], cycles) \in store
    /\ pc = "crashed" =>
          \/ new_listings = AbsentWhenChecked(listings, store0, idx - 1)
          \/ new_listings = AbsentWhenChecked(listings, store0, idx)
    /\ \A m, n \in 1..Len(new_listings) :
          m # n => new_listings[m].id # new_listings[n].id

\* C11 witness: a cycle on a store that already held a row went through three
\* candidates, the last two of them the same apartment, and found one new.
C11_Witness ==
    /\ pc = "notify"
    /\ Len(listings) = 3
    /\ listings[2].id = listings[3].id
    /\ store0 # {}
    /\ Len(new_listings) = 1

\* The price of a cascade in which the first success wins: the value of the
\* first price selector, in list order, whose element yields a currency value,
\* 'N/A' when none does.
CascadePrice(card) ==
    LET yields(i) == /\ card.prices[i].found
                     /\ PriceFromText(Strip(card.prices[i].text)) # NA
    IN  IF \E i \in PriceSelectors : yields(i)
        THEN LET first == CHOOSE i \in PriceSelectors :
                              yields(i) /\ \A j \in PriceSelectors : j < i => ~yields(j)
             IN  PriceFromText(Strip(card.prices[first].text))
        ELSE NA

\* The cards of a page that scrape_listings turns into listings, in order.
EmittedCards(p) == SelectSeq(p, Emits)

\* C12: the price of every listing scrape_listings returns is the currency
\* value of the first price selector, in list order, that yields one (later
\* selectors being tried when an earlier one matches an element without a
\* currency value), and 'N/A' only if no selector yields one.
C12_PriceFirstSuccessWins ==
    pc # "fetched" =>
        /\ Len(listings) = Len(EmittedCards(page))
        /\ \A i \in 1..Len(listings) :
              listings[i].price = CascadePrice(EmittedCards(page)[i])

\* C13: over any sequence of cycles on one store, a listing id is handed to
\* the notifier in at most one cycle, and at most once in that cycle.
C13_HandedAtMostOnce ==
    /\ \A i, j \in 1..Len(notifyLog) :
          i # j => notifyLog[i].cycle # notifyLog[j].cycle
    /\ \A i, j \in 1..Len(notifyLog) :
          \A k \in 1..Len(notifyLog[i].ids), m \in 1..Len(notifyLog[j].ids) :
              <<i, k>> # <<j, m>> => notifyLog[i].ids[k] # notifyLog[j].ids[m]

\* C13 witness: the notifier was called in two cycles, and the second of them
\* had extracted a listing that the first had handed over.
C13_Witness ==
    /\ Len(notifyLog) = 2
    /\ notifyLog[2].cycle = cycles
    /\ \E k \in 1..Len(notifyLog[1].ids), m \in 1..Len(listings) :
          listings[m].id = notifyLog[1].ids[k]

\* C14: at the end of every cycle, aborted ones included, every row of the
\* store was handed to the notifier by the cycle that persisted it.
C14_PersistedWereHanded ==
    pc \in {"idle", "crashed", "stopped"} =>
        \A row \in store :
            \E i \in 1..Len(notifyLog) :
                /\ notifyLog[i].cycle = row.first_seen
                /\ \E k \in 1..Len(notifyLog[i].ids) : notifyLog[i].ids[k] = row.id

====
